---- MODULE Spec2Model ----
(***************************************************************************)
(* Model of the lmapi backend: JWT access guard, users, companies, agents, *)
(* and the thread/message endpoints that reach an agent.                   *)
(*                                                                         *)
(* Ids are positive naturals handed out by per-collection counters (an     *)
(* ObjectId is never reused); 0 stands for an absent id and BadId for a    *)
(* string that is not a well-formed ObjectId.  The clock counts units of   *)
(* eight hours (Day of them make 24 hours).                                *)
(***************************************************************************)
EXTENDS Integers, Sequences, FiniteSets, TLC

VARIABLES users, tokens, clock, companies, agents, contacts, threads,
          messages, nextId, last, prev, flight

ownVars  == <<companies, agents>>
msgVars  == <<contacts, threads, messages>>
dbVars   == <<users, companies, agents, contacts, threads, messages, nextId>>
vars     == <<users, tokens, clock, companies, agents, contacts, threads,
              messages, nextId, last, prev, flight>>

(***************************************************************************)
(* Bounds of the model.                                                    *)
(***************************************************************************)
MaxUsers == 2
MaxTokens == 2
MaxCompanies == 2
MaxAgents == 2
MaxContacts == 1
MaxThreads == 2
MaxMessages == 6
MaxClock == 24
MaxRequests == 2
MaxElapsed == 4

(***************************************************************************)
(* Program constants.                                                      *)
(***************************************************************************)
Day == 3
TokenLifetime == 7 * Day
ThreadWindow == Day

BadId == -1
NoUser == [id |-> 0, email |-> "", name |-> ""]
NoData == <<>>

RawEmails == {"ann@x.com", "Ann@X.com", "bob@x.com"}
UserNames == {"Ann", "Bob"}
Passwords == {"secret1"}
CompanyNames == {"Acme", "Bolt"}
AgentNames == {"Sales", "Help"}

(***************************************************************************)
(* Responses: res.status(s).json({success, message, data}).                *)
(***************************************************************************)
Response(status, message, data, total) ==
  [status |-> status, message |-> message, data |-> data, total |-> total]

Err(status, message) == Response(status, message, NoData, 0)

AuthRequired == Err(401, "User authentication required")
ValidationError == Err(400, "Validation error")
InvalidQuery == Err(400, "Invalid query parameters")
InternalError == Err(500, "Internal server error")
CompanyNotFound == Err(404, "Company not found or access denied")
AgentNotFound == Err(404, "Agent not found or access denied")
CompanyDenied == Err(403, "Company not found or access denied")

(***************************************************************************)
(* Token service (utils/jwt).                                              *)
(***************************************************************************)
generateTokenSeconds(payload, now) ==
  [kind |-> "jwt", userId |-> payload.userId, email |-> payload.email,
   iat |-> now, exp |-> now, sig |-> "ok"]

\* jwt.sign(payload, secret, {expiresIn: '7d'})
generateToken(payload, now) ==
  [kind |-> "jwt", userId |-> payload.userId, email |-> payload.email,
   iat |-> now, exp |-> now + TokenLifetime, sig |-> "ok"]

\* jwt.verify: throws on a malformed token, a bad signature, or now >= exp.
verifyTokenOk(token, now) ==
  /\ token.kind = "jwt"
  /\ token.sig = "ok"
  /\ now < token.exp

NoToken == [kind |-> "empty", userId |-> 0, email |-> "", iat |-> 0,
            exp |-> 0, sig |-> ""]
Malformed == [kind |-> "malformed", userId |-> 0, email |-> "", iat |-> 0,
              exp |-> 0, sig |-> ""]
Forge(t) == [t EXCEPT !.sig = "bad"]

\* The Authorization header after split(' '): absent, or its parts.
NoHeader == [present |-> FALSE, parts |-> <<>>]
Header(parts) == [present |-> TRUE, parts |-> parts]
Bearer(t) == Header(<<"Bearer", t>>)

HeaderToken(hdr) ==
  IF hdr.present /\ Len(hdr.parts) >= 2 THEN hdr.parts[2] ELSE NoToken

UserById(id) == {u \in users : u.id = id}

(***************************************************************************)
(* authenticateToken: the outcome of the guard for a header.  next says    *)
(* whether next() is called, user is what req.user holds afterwards.       *)
(***************************************************************************)
Denied(status, message) ==
  [next |-> FALSE, user |-> NoUser, resp |-> Err(status, message)]

Granted(user) == [next |-> TRUE, user |-> user, resp |-> Err(0, "")]

SubjectFromPayload(token) ==
  Granted([id |-> token.userId, email |-> token.email, name |-> ""])

\* User.findById(decoded.userId).select('_id name email') and what follows.
ResolveSubject(token) ==
  IF UserById(token.userId) = {}
  THEN Denied(401, "User not found")
  ELSE LET user == CHOOSE u \in UserById(token.userId) : TRUE
       IN Granted([id |-> user.id, email |-> user.email, name |-> user.name])

\* verifyToken and the catch block around it.
VerifyAndResolve(token) ==
  IF ~verifyTokenOk(token, clock)
  THEN Denied(403, "Invalid or expired token")
  ELSE ResolveSubject(token)

TokenOptional(hdr) ==
  LET token == HeaderToken(hdr) IN
  IF token.kind = "empty" THEN Granted(NoUser) ELSE VerifyAndResolve(token)

authenticateToken(hdr) ==
  LET token == HeaderToken(hdr) IN
  IF token.kind = "empty"
  THEN Denied(401, "Access token is required")
  ELSE VerifyAndResolve(token)

\* The try block of optionalAuth up to its next(): the identity it attached
\* and whether it threw (verifyToken throws; a missing user does not).
OptionalTry(token) ==
  IF token.kind = "empty" THEN [threw |-> FALSE, user |-> NoUser]
  ELSE IF ~verifyTokenOk(token, clock) THEN [threw |-> TRUE, user |-> NoUser]
  ELSE IF UserById(token.userId) = {} THEN [threw |-> FALSE, user |-> NoUser]
  ELSE LET user == CHOOSE u \in UserById(token.userId) : TRUE
       IN [threw |-> FALSE,
           user |-> [id |-> user.id, email |-> user.email, name |-> user.name]]

OptionalAsRequired(hdr) ==
  LET guard == authenticateToken(hdr)
  IN [next |-> guard.next, calls |-> IF guard.next THEN 1 ELSE 0,
      user |-> guard.user, resp |-> guard.resp]

\* optionalAuth: next() at the end of the try block, or in the catch block;
\* calls counts the calls of next(), resp stays the unsent response.
optionalAuth(hdr) ==
  LET try == OptionalTry(HeaderToken(hdr))
      calls == (IF try.threw THEN 0 ELSE 1) + (IF try.threw THEN 1 ELSE 0)
  IN [next |-> calls >= 1, calls |-> calls, user |-> try.user,
      resp |-> Err(0, "")]

Idle == [op |-> "idle", hdr |-> NoHeader, req |-> [id |-> 0],
         user |-> NoUser, next |-> FALSE, resp |-> Err(0, "")]

\* One request is served at a time; last holds the request, what the guard
\* did with it (next, user) and the response until the client has read it.
Observe(op, hdr, req, guard, resp) ==
  /\ last = Idle
  /\ prev' = prev
  /\ flight' = flight
  /\ last' = [op |-> op, hdr |-> hdr, req |-> req, user |-> guard.user,
              next |-> guard.next, resp |-> resp]

\* The client reads the response.
Respond ==
  /\ last # Idle
  /\ last' = Idle
  /\ UNCHANGED <<dbVars, tokens, clock, prev, flight>>

\* Requests in flight: a handler is a chain of awaited steps, and between two
\* steps of one request the steps of another may run.  A request record holds
\* the handler's position (pc), its local variables, the documents it
\* inserted (wrote), the steps it ran, and its response once sent.
Requests == 1..MaxRequests
NoFlight == [pc |-> "idle", body |-> [id |-> 0], contactId |-> 0,
             threadId |-> 0, isNew |-> FALSE, contactMark |-> 0,
             threadMark |-> 0, wrote |-> {}, steps |-> <<>>,
             resp |-> Err(0, "")]

\* What a client keeps of its last completed send-to-agent call.
NoSend == [at |-> 0, req |-> [id |-> 0], resp |-> Err(0, "")]

\* The client of send-to-agent reads the response and, when the call
\* succeeded, keeps it together with the time of the call.
RespondSend ==
  /\ last.op = "sendMessageToAgent"
  /\ last' = Idle
  /\ prev' = IF last.resp.status = 201
             THEN [at |-> clock, req |-> last.req, resp |-> last.resp]
             ELSE prev
  /\ UNCHANGED <<dbVars, tokens, clock, flight>>

\* The guard rejected the request: the handler never runs.
Rejected(op, hdr, req) ==
  LET guard == authenticateToken(hdr) IN
  /\ ~guard.next
  /\ Observe(op, hdr, req, guard, guard.resp)
  /\ UNCHANGED <<dbVars, tokens, clock>>

(***************************************************************************)
(* Helpers shared by the handlers.                                         *)
(***************************************************************************)
Min(a, b) == IF a <= b THEN a ELSE b

\* sort({createdAt: -1}): ids grow with creation time.
RECURSIVE SortDesc(_)
SortDesc(S) ==
  IF S = {} THEN <<>>
  ELSE LET m == CHOOSE x \in S : \A y \in S : y.id <= x.id
       IN <<m>> \o SortDesc(S \ {m})

\* skip((page - 1) * limit).limit(limit)
Paginate(seq, page, limit) ==
  LET skip == (page - 1) * limit
  IN SubSeq(seq, skip + 1, Min(skip + limit, Len(seq)))

\* { $regex: search, $options: 'i' } over the names of the model.
ToLower(s) ==
  CASE s = "Ann@X.com" -> "ann@x.com"
    [] s = "Acme" -> "acme"
    [] s = "Bolt" -> "bolt"
    [] s = "Sales" -> "sales"
    [] s = "Help" -> "help"
    [] OTHER -> s

RegexI(name, search) == ToLower(name) = ToLower(search)

Hash(password) == <<"bcrypt", password>>

NoUserByEmail(email) == {}

\* User.findOne({email: validatedData.email})
UserByEmail(email) == {u \in users : u.email = email}

(***************************************************************************)
(* user-controller: createUser, login, getCurrentUser.                     *)
(***************************************************************************)
createUser(body) ==
  LET email == ToLower(body.email)
      req == [email |-> body.email, name |-> body.name, valid |-> body.valid]
      open == Granted(NoUser)
  IN
  /\ UNCHANGED <<clock, ownVars, msgVars>>
  /\ IF ~body.valid
     THEN /\ Observe("createUser", NoHeader, req, open, ValidationError)
          /\ UNCHANGED <<users, tokens, nextId>>
     ELSE IF UserByEmail(email) # {}
     THEN /\ Observe("createUser", NoHeader, req, open,
                     Err(409, "User with this email already exists"))
          /\ UNCHANGED <<users, tokens, nextId>>
     ELSE LET savedUser == [id |-> nextId.user, name |-> body.name,
                            email |-> email, password |-> Hash(body.password)]
              token == generateToken([userId |-> savedUser.id,
                                      email |-> savedUser.email], clock)
          IN /\ nextId.user <= MaxUsers
             /\ Cardinality(tokens \cup {token}) <= MaxTokens
             /\ users' = users \cup {savedUser}
             /\ nextId' = [nextId EXCEPT !.user = @ + 1]
             /\ tokens' = tokens \cup {token}
             /\ Observe("createUser", NoHeader, req, open,
                        Response(201, "User created successfully",
                                 <<[id |-> savedUser.id, name |-> savedUser.name,
                                    email |-> savedUser.email, token |-> token]>>, 0))

login(body) ==
  LET email == ToLower(body.email)
      req == [email |-> body.email, password |-> body.password,
              valid |-> body.valid]
      open == Granted(NoUser)
      found == UserByEmail(email)
  IN
  /\ UNCHANGED <<dbVars, clock>>
  /\ IF ~body.valid
     THEN /\ Observe("login", NoHeader, req, open, ValidationError)
          /\ UNCHANGED tokens
     ELSE IF found = {}
     THEN /\ Observe("login", NoHeader, req, open,
                     Err(401, "Invalid email or password"))
          /\ UNCHANGED tokens
     ELSE LET user == CHOOSE u \in found : TRUE IN
          IF user.password # Hash(body.password)
          THEN /\ Observe("login", NoHeader, req, open,
                          Err(401, "Invalid email or password"))
               /\ UNCHANGED tokens
          ELSE LET token == generateToken([userId |-> user.id,
                                           email |-> user.email], clock)
               IN /\ Cardinality(tokens \cup {token}) <= MaxTokens
                  /\ tokens' = tokens \cup {token}
                  /\ Observe("login", NoHeader, req, open,
                             Response(200, "Login successful",
                                      <<[id |-> user.id, name |-> user.name,
                                         email |-> user.email,
                                         token |-> token]>>, 0))

getCurrentUser(hdr) ==
  LET guard == authenticateToken(hdr)
      req == [id |-> 0]
      found == UserById(guard.user.id)
  IN
  /\ guard.next
  /\ UNCHANGED <<dbVars, tokens, clock>>
  /\ IF guard.user.id = 0
     THEN Observe("getCurrentUser", hdr, req, guard,
                  Err(401, "User not authenticated"))
     ELSE IF found = {}
     THEN Observe("getCurrentUser", hdr, req, guard, Err(404, "User not found"))
     ELSE LET user == CHOOSE u \in found : TRUE IN
          Observe("getCurrentUser", hdr, req, guard,
                  Response(200, "User retrieved successfully",
                           <<[id |-> user.id, name |-> user.name,
                              email |-> user.email]>>, 0))

\* GET /auth/me: authenticateToken, then getCurrentUser.
RouteMe(hdr) ==
  \/ Rejected("getCurrentUser", hdr, [id |-> 0])
  \/ getCurrentUser(hdr)

\* A route behind optionalAuth: the guard never answers, the handler runs.
RouteOptional(hdr) ==
  LET guard == optionalAuth(hdr) IN
  /\ Observe("optionalAuth", hdr, [id |-> 0, calls |-> guard.calls], guard,
             guard.resp)
  /\ UNCHANGED <<dbVars, tokens, clock>>

\* A user document is removed from the store (there is no endpoint for it;
\* the guard's "user still exists" lookup is written for this case).
UserRemoved(id) ==
  /\ \E u \in users : u.id = id
  /\ last = Idle
  /\ users' = {u \in users : u.id # id}
  /\ UNCHANGED <<last, prev, flight>>
  /\ UNCHANGED <<tokens, clock, ownVars, msgVars, nextId>>

\* Time passes.
Tick(d) ==
  /\ clock + d <= MaxClock
  /\ last = Idle
  /\ clock' = clock + d
  /\ UNCHANGED <<last, prev, flight>>
  /\ UNCHANGED <<users, tokens, ownVars, msgVars, nextId>>

(***************************************************************************)
(* company-controller.  A handler runs after the guard called next(), with *)
(* req.user as the guard set it.                                           *)
(***************************************************************************)
CompanyView(c) == [id |-> c.id, name |-> c.name, userId |-> c.userId]

CompanyOfAnyOwner(id, userId) == {c \in companies : c.id = id}

\* Company.findOne({_id: id, userId: userId})
OwnedCompany(id, userId) == {c \in companies : c.id = id /\ c.userId = userId}

createCompany(hdr, body) ==
  LET guard == authenticateToken(hdr)
      userId == guard.user.id
      req == body
  IN
  /\ guard.next
  /\ UNCHANGED <<users, tokens, clock, agents, msgVars>>
  /\ IF ~body.valid
     THEN /\ Observe("createCompany", hdr, req, guard, ValidationError)
          /\ UNCHANGED <<companies, nextId>>
     ELSE IF userId = 0
     THEN /\ Observe("createCompany", hdr, req, guard, AuthRequired)
          /\ UNCHANGED <<companies, nextId>>
     ELSE IF \E c \in companies : c.name = body.name /\ c.userId = userId
     THEN /\ Observe("createCompany", hdr, req, guard,
                     Err(409, "Company with this name already exists"))
          /\ UNCHANGED <<companies, nextId>>
     ELSE LET savedCompany == [id |-> nextId.company, name |-> body.name,
                               userId |-> userId]
          IN /\ nextId.company <= MaxCompanies
             /\ companies' = companies \cup {savedCompany}
             /\ nextId' = [nextId EXCEPT !.company = @ + 1]
             /\ Observe("createCompany", hdr, req, guard,
                        Response(201, "Company created successfully",
                                 <<CompanyView(savedCompany)>>, 0))

ListAllCompanies(userId, search) ==
  {c \in companies : search = "" \/ RegexI(c.name, search)}

ListCompanies(userId, search) ==
  {c \in companies : /\ c.userId = userId
                     /\ search = "" \/ RegexI(c.name, search)}

getCompanies(hdr, query) ==
  LET guard == authenticateToken(hdr)
      userId == guard.user.id
      found == ListCompanies(userId, query.search)
      page == Paginate(SortDesc(found), query.page, query.limit)
  IN
  /\ guard.next
  /\ UNCHANGED <<dbVars, tokens, clock>>
  /\ IF ~query.valid
     THEN Observe("getCompanies", hdr, query, guard, InvalidQuery)
     ELSE IF userId = 0
     THEN Observe("getCompanies", hdr, query, guard, AuthRequired)
     ELSE Observe("getCompanies", hdr, query, guard,
                  Response(200, "Companies retrieved successfully",
                           [i \in 1..Len(page) |-> CompanyView(page[i])],
                           Cardinality(found)))

getCompanyById(hdr, id) ==
  LET guard == authenticateToken(hdr)
      userId == guard.user.id
      req == [id |-> id]
      found == OwnedCompany(id, userId)
  IN
  /\ guard.next
  /\ UNCHANGED <<dbVars, tokens, clock>>
  /\ IF userId = 0
     THEN Observe("getCompanyById", hdr, req, guard, AuthRequired)
     ELSE IF id = BadId
     THEN Observe("getCompanyById", hdr, req, guard,
                  Err(400, "Invalid company ID format"))
     ELSE IF found = {}
     THEN Observe("getCompanyById", hdr, req, guard, CompanyNotFound)
     ELSE LET company == CHOOSE c \in found : TRUE IN
          Observe("getCompanyById", hdr, req, guard,
                  Response(200, "Company retrieved successfully",
                           <<CompanyView(company)>>, 0))

ApplyCompanyUpdateUnstripped(c, body) ==
  [c EXCEPT !.name = IF body.name = "" THEN @ ELSE body.name,
            !.userId = IF body.userId = 0 THEN @ ELSE body.userId]

\* The update document of findOneAndUpdate is validatedData: the fields of
\* updateCompanySchema the body carries; parse drops every other key.
ApplyCompanyUpdate(c, body) ==
  [c EXCEPT !.name = IF body.name = "" THEN @ ELSE body.name]

updateCompany(hdr, id, body) ==
  LET guard == authenticateToken(hdr)
      userId == guard.user.id
      req == [id |-> id] @@ body
      found == OwnedCompany(id, userId)
  IN
  /\ guard.next
  /\ UNCHANGED <<users, tokens, clock, agents, msgVars, nextId>>
  /\ IF userId = 0
     THEN /\ Observe("updateCompany", hdr, req, guard, AuthRequired)
          /\ UNCHANGED companies
     ELSE IF id = BadId
     THEN /\ Observe("updateCompany", hdr, req, guard,
                     Err(400, "Invalid company ID format"))
          /\ UNCHANGED companies
     ELSE IF ~body.valid
     THEN /\ Observe("updateCompany", hdr, req, guard, ValidationError)
          /\ UNCHANGED companies
     ELSE IF found = {}
     THEN /\ Observe("updateCompany", hdr, req, guard, CompanyNotFound)
          /\ UNCHANGED companies
     ELSE LET company == CHOOSE c \in found : TRUE
              updatedCompany == ApplyCompanyUpdate(company, body)
          IN /\ companies' = (companies \ {company}) \cup {updatedCompany}
             /\ Observe("updateCompany", hdr, req, guard,
                        Response(200, "Company updated successfully",
                                 <<CompanyView(updatedCompany)>>, 0))

deleteCompany(hdr, id) ==
  LET guard == authenticateToken(hdr)
      userId == guard.user.id
      req == [id |-> id]
      found == OwnedCompany(id, userId)
  IN
  /\ guard.next
  /\ UNCHANGED <<users, tokens, clock, agents, msgVars, nextId>>
  /\ IF userId = 0
     THEN /\ Observe("deleteCompany", hdr, req, guard, AuthRequired)
          /\ UNCHANGED companies
     ELSE IF id = BadId
     THEN /\ Observe("deleteCompany", hdr, req, guard,
                     Err(400, "Invalid company ID format"))
          /\ UNCHANGED companies
     ELSE IF found = {}
     THEN /\ Observe("deleteCompany", hdr, req, guard, CompanyNotFound)
          /\ UNCHANGED companies
     ELSE LET deletedCompany == CHOOSE c \in found : TRUE
          IN /\ companies' = companies \ {deletedCompany}
             /\ Observe("deleteCompany", hdr, req, guard,
                        Response(200, "Company deleted successfully",
                                 <<[id |-> deletedCompany.id,
                                    name |-> deletedCompany.name]>>, 0))

(***************************************************************************)
(* agent-controller.                                                       *)
(***************************************************************************)
AgentView(a) == [id |-> a.id, name |-> a.name, companyId |-> a.companyId]

AllCompanyIds(userId) == {c.id : c \in companies}

\* Company.find({userId}).select('_id'), mapped to the ids.
UserCompanyIds(userId) == {c.id : c \in {d \in companies : d.userId = userId}}

\* Agent.findOne({_id: id, companyId: {$in: userCompanyIds}})
AgentOfUser(id, userId) ==
  {a \in agents : a.id = id /\ a.companyId \in UserCompanyIds(userId)}

NewCompanyUnchecked(companyId, userId) == TRUE

\* updateAgent's check of a companyId carried by the body.
NewCompanyAllowed(companyId, userId) ==
  companyId = 0 \/ OwnedCompany(companyId, userId) # {}

createAgent(hdr, body) ==
  LET guard == authenticateToken(hdr)
      userId == guard.user.id
      req == body
  IN
  /\ guard.next
  /\ UNCHANGED <<users, tokens, clock, companies, msgVars>>
  /\ IF ~body.valid \/ body.companyId = BadId
     THEN /\ Observe("createAgent", hdr, req, guard, ValidationError)
          /\ UNCHANGED <<agents, nextId>>
     ELSE IF userId = 0
     THEN /\ Observe("createAgent", hdr, req, guard, AuthRequired)
          /\ UNCHANGED <<agents, nextId>>
     ELSE IF OwnedCompany(body.companyId, userId) = {}
     THEN /\ Observe("createAgent", hdr, req, guard, CompanyDenied)
          /\ UNCHANGED <<agents, nextId>>
     ELSE IF \E a \in agents : a.name = body.name /\ a.companyId = body.companyId
     THEN /\ Observe("createAgent", hdr, req, guard,
                     Err(409, "Agent with this name already exists in this company"))
          /\ UNCHANGED <<agents, nextId>>
     ELSE LET savedAgent == [id |-> nextId.agent, name |-> body.name,
                             companyId |-> body.companyId]
          IN /\ nextId.agent <= MaxAgents
             /\ agents' = agents \cup {savedAgent}
             /\ nextId' = [nextId EXCEPT !.agent = @ + 1]
             /\ Observe("createAgent", hdr, req, guard,
                        Response(201, "Agent created successfully",
                                 <<AgentView(savedAgent)>>, 0))

\* Agent.find({companyId: companyId, $or: [...]}): the caller's id is not
\* part of the query.  An absent companyId is sent as undefined, which the
\* store matches against null, and no agent has a null companyId.
ListAgents(userId, companyId, search) ==
  {a \in agents : /\ a.companyId = companyId
                  /\ search = "" \/ RegexI(a.name, search)}

getAgents(hdr, query) ==
  LET guard == authenticateToken(hdr)
      userId == guard.user.id
      found == ListAgents(userId, query.companyId, query.search)
      page == Paginate(SortDesc(found), query.page, query.limit)
  IN
  /\ guard.next
  /\ UNCHANGED <<dbVars, tokens, clock>>
  /\ IF ~query.valid \/ query.companyId = BadId
     THEN Observe("getAgents", hdr, query, guard, InvalidQuery)
     ELSE IF userId = 0
     THEN Observe("getAgents", hdr, query, guard, AuthRequired)
     ELSE Observe("getAgents", hdr, query, guard,
                  Response(200, "Agents retrieved successfully",
                           [i \in 1..Len(page) |-> AgentView(page[i])],
                           Cardinality(found)))

getAgentById(hdr, id) ==
  LET guard == authenticateToken(hdr)
      userId == guard.user.id
      req == [id |-> id]
      found == AgentOfUser(id, userId)
  IN
  /\ guard.next
  /\ UNCHANGED <<dbVars, tokens, clock>>
  /\ IF userId = 0
     THEN Observe("getAgentById", hdr, req, guard, AuthRequired)
     ELSE IF id = BadId
     THEN Observe("getAgentById", hdr, req, guard,
                  Err(400, "Invalid agent ID format"))
     ELSE IF found = {}
     THEN Observe("getAgentById", hdr, req, guard, AgentNotFound)
     ELSE LET agent == CHOOSE a \in found : TRUE IN
          Observe("getAgentById", hdr, req, guard,
                  Response(200, "Agent retrieved successfully",
                           <<AgentView(agent)>>, 0))

\* The update document of findOneAndUpdate: the fields the body carries.
ApplyAgentUpdate(a, body) ==
  [a EXCEPT !.name = IF body.name = "" THEN @ ELSE body.name,
            !.companyId = IF body.companyId = 0 THEN @ ELSE body.companyId]

updateAgent(hdr, id, body) ==
  LET guard == authenticateToken(hdr)
      userId == guard.user.id
      req == [id |-> id, name |-> body.name, companyId |-> body.companyId,
              valid |-> body.valid]
      found == AgentOfUser(id, userId)
  IN
  /\ guard.next
  /\ UNCHANGED <<users, tokens, clock, companies, msgVars, nextId>>
  /\ IF userId = 0
     THEN /\ Observe("updateAgent", hdr, req, guard, AuthRequired)
          /\ UNCHANGED agents
     ELSE IF id = BadId
     THEN /\ Observe("updateAgent", hdr, req, guard,
                     Err(400, "Invalid agent ID format"))
          /\ UNCHANGED agents
     ELSE IF ~body.valid \/ body.companyId = BadId
     THEN /\ Observe("updateAgent", hdr, req, guard, ValidationError)
          /\ UNCHANGED agents
     ELSE IF ~NewCompanyAllowed(body.companyId, userId)
     THEN /\ Observe("updateAgent", hdr, req, guard, CompanyDenied)
          /\ UNCHANGED agents
     ELSE IF found = {}
     THEN /\ Observe("updateAgent", hdr, req, guard, AgentNotFound)
          /\ UNCHANGED agents
     ELSE LET agent == CHOOSE a \in found : TRUE
              updatedAgent == ApplyAgentUpdate(agent, body)
          IN /\ agents' = (agents \ {agent}) \cup {updatedAgent}
             /\ Observe("updateAgent", hdr, req, guard,
                        Response(200, "Agent updated successfully",
                                 <<AgentView(updatedAgent)>>, 0))

deleteAgent(hdr, id) ==
  LET guard == authenticateToken(hdr)
      userId == guard.user.id
      req == [id |-> id]
      found == AgentOfUser(id, userId)
  IN
  /\ guard.next
  /\ UNCHANGED <<users, tokens, clock, companies, msgVars, nextId>>
  /\ IF userId = 0
     THEN /\ Observe("deleteAgent", hdr, req, guard, AuthRequired)
          /\ UNCHANGED agents
     ELSE IF id = BadId
     THEN /\ Observe("deleteAgent", hdr, req, guard,
                     Err(400, "Invalid agent ID format"))
          /\ UNCHANGED agents
     ELSE IF found = {}
     THEN /\ Observe("deleteAgent", hdr, req, guard, AgentNotFound)
          /\ UNCHANGED agents
     ELSE LET deletedAgent == CHOOSE a \in found : TRUE
          IN /\ agents' = agents \ {deletedAgent}
             /\ Observe("deleteAgent", hdr, req, guard,
                        Response(200, "Agent deleted successfully",
                                 <<[id |-> deletedAgent.id,
                                    name |-> deletedAgent.name]>>, 0))

(***************************************************************************)
(* thread-controller and message-controller.                               *)
(***************************************************************************)
Origins == {"whatsapp", "website"}
Phones == {"+15551234567"}
ContactEmails == {"cli@x.com"}
Contents == {"hi", "h"}
CannedReply ==
  "Olá! Recebi sua mensagem e em breve nossa equipe entrará em contato com você."

\* validatedData.email?.split('@')[0] || '-'
LocalPart(email) ==
  CASE email = "cli@x.com" -> "cli"
    [] email = "a@x.com" -> "a"
    [] OTHER -> "-"

\* ContactSchema.name: minlength 2, maxlength 100.
ContactNameOk(name) == Len(name) >= 2 /\ Len(name) <= 100

\* ThreadSchema.name: minlength 2, maxlength 200.
ThreadNameOk(name) == Len(name) >= 2 /\ Len(name) <= 200

\* The refinement of sendMessageToAgentSchema.
OriginKeyPresent(body) ==
  IF body.origin = "whatsapp" THEN body.phone # "" ELSE body.email # ""

FindContactAnyKey(body) ==
  LET match == {c \in contacts :
                  \/ body.phone # "" /\ c.phone = body.phone
                  \/ body.email # "" /\ c.email = body.email}
  IN IF match = {} THEN {}
     ELSE {CHOOSE c \in match : \A d \in match : c.id <= d.id}

FindContactByEmail(body) ==
  LET match == {c \in contacts : c.email = body.email}
  IN IF match = {} THEN {}
     ELSE {CHOOSE c \in match : \A d \in match : c.id <= d.id}

\* Contact.findOne(contactQuery): the first document in insertion order.
FindContact(body) ==
  LET match == {c \in contacts :
                  IF body.origin = "whatsapp" THEN c.phone = body.phone
                  ELSE c.email = body.email}
  IN IF match = {} THEN {}
     ELSE {CHOOSE c \in match : \A d \in match : c.id <= d.id}

FindThreadStrictWindow(contactId, agentId, origin, now) ==
  LET match == {t \in threads : /\ t.contactId = contactId
                                /\ t.agentId = agentId
                                /\ t.origin = origin
                                /\ t.createdAt > now - ThreadWindow}
  IN IF match = {} THEN {}
     ELSE {CHOOSE t \in match :
             \A d \in match : \/ d.createdAt < t.createdAt
                              \/ d.createdAt = t.createdAt /\ d.id <= t.id}

FindThreadOutsideWindow(contactId, agentId, origin, now) ==
  LET match == {t \in threads : /\ t.contactId = contactId
                                /\ t.agentId = agentId
                                /\ t.origin = origin
                                /\ t.createdAt <= now - ThreadWindow}
  IN IF match = {} THEN {}
     ELSE {CHOOSE t \in match : \A d \in match : d.id <= t.id}

\* Thread.findOne(threadQuery).sort({createdAt: -1})
FindThread(contactId, agentId, origin, now) ==
  LET match == {t \in threads : /\ t.contactId = contactId
                                /\ t.agentId = agentId
                                /\ t.origin = origin
                                /\ t.createdAt >= now - ThreadWindow}
  IN IF match = {} THEN {}
     ELSE {CHOOSE t \in match :
             \A d \in match : \/ d.createdAt < t.createdAt
                              \/ d.createdAt = t.createdAt /\ d.id <= t.id}

AgentAssumed(agentId) == TRUE

\* Agent.findById(agentId): the id alone, whoever owns the agent's company.
AgentExists(agentId) == \E a \in agents : a.id = agentId

createThread(hdr, body) ==
  LET guard == authenticateToken(hdr)
      req == body
  IN
  /\ guard.next
  /\ UNCHANGED <<users, tokens, clock, ownVars, contacts, messages>>
  /\ IF ~body.valid
     THEN /\ Observe("createThread", hdr, req, guard, ValidationError)
          /\ UNCHANGED <<threads, nextId>>
     ELSE IF body.contactId = BadId
     THEN /\ Observe("createThread", hdr, req, guard,
                     Err(400, "Invalid contact ID or agent ID format"))
          /\ UNCHANGED <<threads, nextId>>
     ELSE IF ~\E c \in contacts : c.id = body.contactId
     THEN /\ Observe("createThread", hdr, req, guard,
                     Err(404, "Contact not found"))
          /\ UNCHANGED <<threads, nextId>>
     ELSE IF body.agentId = BadId
     THEN /\ Observe("createThread", hdr, req, guard,
                     Err(400, "Invalid contact ID or agent ID format"))
          /\ UNCHANGED <<threads, nextId>>
     ELSE IF ~\E a \in agents : a.id = body.agentId
     THEN /\ Observe("createThread", hdr, req, guard,
                     Err(404, "Agent not found"))
          /\ UNCHANGED <<threads, nextId>>
     ELSE LET savedThread == [id |-> nextId.thread,
                              contactId |-> body.contactId,
                              agentId |-> body.agentId, name |-> body.name,
                              origin |-> body.origin, createdAt |-> clock]
          IN /\ nextId.thread <= MaxThreads
             /\ threads' = threads \cup {savedThread}
             /\ nextId' = [nextId EXCEPT !.thread = @ + 1]
             /\ Observe("createThread", hdr, req, guard,
                        Response(201, "Thread created successfully",
                                 <<savedThread>>, 0))

sendMessageToAgent(hdr, body) ==
  LET guard == authenticateToken(hdr)
      req == body
      existing == FindContact(body)
      contactData ==
        IF body.origin = "whatsapp"
        THEN [id |-> nextId.contact, name |-> body.phone, email |-> "",
              phone |-> body.phone]
        ELSE [id |-> nextId.contact, name |-> LocalPart(body.email),
              email |-> body.email, phone |-> ""]
      contact == IF existing = {} THEN contactData
                 ELSE CHOOSE c \in existing : TRUE
      contactsAfter == IF existing = {} THEN contacts \cup {contactData}
                       ELSE contacts
      nextContact == IF existing = {} THEN nextId.contact + 1
                     ELSE nextId.contact
      recent == FindThread(contact.id, body.agentId, body.origin, clock)
      threadData == [id |-> nextId.thread, contactId |-> contact.id,
                     agentId |-> body.agentId, name |-> body.content,
                     origin |-> body.origin, createdAt |-> clock]
      thread == IF recent = {} THEN threadData ELSE CHOOSE t \in recent : TRUE
      isNewThread == recent = {}
      userMessage == [id |-> nextId.message, threadId |-> thread.id,
                      role |-> "user", content |-> body.content]
      assistantMessage == [id |-> nextId.message + 1, threadId |-> thread.id,
                           role |-> "assistant", content |-> CannedReply]
  IN
  /\ guard.next
  /\ UNCHANGED <<users, tokens, clock, ownVars>>
  /\ IF ~body.valid \/ ~OriginKeyPresent(body)
     THEN /\ Observe("sendMessageToAgent", hdr, req, guard, ValidationError)
          /\ UNCHANGED <<msgVars, nextId>>
     ELSE IF body.agentId = BadId
     THEN /\ Observe("sendMessageToAgent", hdr, req, guard,
                     Err(400, "Invalid agent ID format"))
          /\ UNCHANGED <<msgVars, nextId>>
     ELSE IF ~AgentExists(body.agentId)
     THEN /\ Observe("sendMessageToAgent", hdr, req, guard,
                     Err(404, "Agent not found"))
          /\ UNCHANGED <<msgVars, nextId>>
     ELSE IF existing = {} /\ ~ContactNameOk(contactData.name)
     THEN \* contact.save() fails validation; nothing was written yet
          /\ Observe("sendMessageToAgent", hdr, req, guard, InternalError)
          /\ UNCHANGED <<msgVars, nextId>>
     ELSE IF isNewThread /\ ~ThreadNameOk(threadData.name)
     THEN \* thread.save() fails validation; a new contact stays committed
          /\ nextContact <= MaxContacts + 1
          /\ contacts' = contactsAfter
          /\ nextId' = [nextId EXCEPT !.contact = nextContact]
          /\ Observe("sendMessageToAgent", hdr, req, guard, InternalError)
          /\ UNCHANGED <<threads, messages>>
     ELSE /\ nextContact <= MaxContacts + 1
          /\ isNewThread => nextId.thread <= MaxThreads
          /\ nextId.message + 1 <= MaxMessages
          /\ contacts' = contactsAfter
          /\ threads' = IF isNewThread THEN threads \cup {threadData}
                        ELSE threads
          /\ messages' = messages \cup {userMessage, assistantMessage}
          /\ nextId' = [nextId EXCEPT
                          !.contact = nextContact,
                          !.thread = IF isNewThread THEN @ + 1 ELSE @,
                          !.message = @ + 2]
          /\ Observe("sendMessageToAgent", hdr, req, guard,
                     Response(201, "Message sent to agent successfully",
                              <<[threadId |-> thread.id, isNew |-> isNewThread,
                                 contactId |-> contact.id,
                                 email |-> contact.email,
                                 phone |-> contact.phone,
                                 userMessage |-> userMessage,
                                 assistantMessage |-> assistantMessage]>>, 0))

Greeting == "Olá, como posso ajudar você hoje?"

\* createMessage: the message of the body, then the assistant's greeting.
createMessage(hdr, body) ==
  LET guard == authenticateToken(hdr)
      req == body
      savedMessage == [id |-> nextId.message, threadId |-> body.threadId,
                       role |-> body.role, content |-> body.content]
      savedMessageAssistant == [id |-> nextId.message + 1,
                                threadId |-> body.threadId,
                                role |-> "assistant", content |-> Greeting]
  IN
  /\ guard.next
  /\ UNCHANGED <<users, tokens, clock, ownVars, contacts, threads>>
  /\ IF ~body.valid
     THEN /\ Observe("createMessage", hdr, req, guard, ValidationError)
          /\ UNCHANGED <<messages, nextId>>
     ELSE IF body.threadId = BadId
     THEN /\ Observe("createMessage", hdr, req, guard,
                     Err(400, "Invalid thread ID format"))
          /\ UNCHANGED <<messages, nextId>>
     ELSE IF ~\E t \in threads : t.id = body.threadId
     THEN /\ Observe("createMessage", hdr, req, guard,
                     Err(404, "Thread not found"))
          /\ UNCHANGED <<messages, nextId>>
     ELSE /\ nextId.message + 1 <= MaxMessages
          /\ messages' = messages \cup {savedMessage, savedMessageAssistant}
          /\ nextId' = [nextId EXCEPT !.message = @ + 2]
          /\ Observe("createMessage", hdr, req, guard,
                     Response(201, "Message created successfully",
                              <<savedMessageAssistant>>, 0))

(***************************************************************************)
(* Routes: the guard, then the handler (router.<verb>(path,                *)
(* authenticateToken, handler)).                                           *)
(***************************************************************************)
RouteCreateCompany(hdr, body) ==
  Rejected("createCompany", hdr, body) \/ createCompany(hdr, body)

RouteGetCompanies(hdr, query) ==
  Rejected("getCompanies", hdr, query) \/ getCompanies(hdr, query)

RouteGetCompanyById(hdr, id) ==
  Rejected("getCompanyById", hdr, [id |-> id]) \/ getCompanyById(hdr, id)

RouteUpdateCompany(hdr, id, body) ==
  \/ Rejected("updateCompany", hdr, [id |-> id] @@ body)
  \/ updateCompany(hdr, id, body)

RouteDeleteCompany(hdr, id) ==
  Rejected("deleteCompany", hdr, [id |-> id]) \/ deleteCompany(hdr, id)

RouteCreateAgent(hdr, body) ==
  Rejected("createAgent", hdr, body) \/ createAgent(hdr, body)

RouteGetAgents(hdr, query) ==
  Rejected("getAgents", hdr, query) \/ getAgents(hdr, query)

RouteGetAgentById(hdr, id) ==
  Rejected("getAgentById", hdr, [id |-> id]) \/ getAgentById(hdr, id)

RouteUpdateAgent(hdr, id, body) ==
  \/ Rejected("updateAgent", hdr,
              [id |-> id, name |-> body.name, companyId |-> body.companyId,
               valid |-> body.valid])
  \/ updateAgent(hdr, id, body)

RouteDeleteAgent(hdr, id) ==
  Rejected("deleteAgent", hdr, [id |-> id]) \/ deleteAgent(hdr, id)

RouteCreateThread(hdr, body) ==
  Rejected("createThread", hdr, body) \/ createThread(hdr, body)

RouteCreateMessage(hdr, body) ==
  Rejected("createMessage", hdr, body) \/ createMessage(hdr, body)

RouteSendMessageToAgent(hdr, body) ==
  Rejected("sendMessageToAgent", hdr, body) \/ sendMessageToAgent(hdr, body)

(***************************************************************************)
(* sendMessageToAgent, one awaited step at a time.                         *)
(***************************************************************************)
AfterStepReplyFirst(pc, found) ==
  CASE pc = "agent" -> "contact"
    [] pc = "contact" -> IF found THEN "thread" ELSE "newContact"
    [] pc = "newContact" -> "thread"
    [] pc = "thread" -> IF found THEN "assistant" ELSE "newThread"
    [] pc = "newThread" -> "assistant"
    [] pc = "assistant" -> "user"
    [] pc = "user" -> "respond"
    [] pc = "respond" -> "done"

\* The order of the awaits of sendMessageToAgent: what runs after a step,
\* given whether a lookup found its document.
AfterStep(pc, found) ==
  CASE pc = "agent" -> "contact"
    [] pc = "contact" -> IF found THEN "thread" ELSE "newContact"
    [] pc = "newContact" -> "thread"
    [] pc = "thread" -> IF found THEN "user" ELSE "newThread"
    [] pc = "newThread" -> "user"
    [] pc = "user" -> "assistant"
    [] pc = "assistant" -> "respond"
    [] pc = "respond" -> "done"

CatchUnwinds(docs, inserted) == {d \in docs : d.id \notin inserted}

\* The catch block of sendMessageToAgent answers the error and leaves the
\* collection, with what the request inserted into it, as it is.
CatchKeeps(docs, inserted) == docs

Inserted(r, kind) == {w[2] : w \in {x \in flight[r].wrote : x[1] = kind}}

\* A step of request r threw: the catch block runs and the request ends.
Caught(r, resp) ==
  /\ contacts' = CatchKeeps(contacts, Inserted(r, "contact"))
  /\ threads' = CatchKeeps(threads, Inserted(r, "thread"))
  /\ messages' = CatchKeeps(messages, Inserted(r, "message"))
  /\ flight' = [flight EXCEPT ![r].pc = "done", ![r].resp = resp,
                              ![r].steps = Append(@, flight[r].pc)]
  /\ UNCHANGED <<users, tokens, clock, ownVars, nextId, last, prev>>

\* The request arrives: the guard, then sendMessageToAgentSchema.parse.
SendStart(r, hdr, body) ==
  /\ flight[r].pc = "idle"
  /\ authenticateToken(hdr).next
  /\ flight' = [flight EXCEPT ![r] =
                  IF ~body.valid \/ ~OriginKeyPresent(body)
                  THEN [NoFlight EXCEPT !.pc = "done", !.body = body,
                                        !.steps = <<"parse">>,
                                        !.resp = ValidationError]
                  ELSE [NoFlight EXCEPT !.pc = "agent", !.body = body]]
  /\ UNCHANGED <<dbVars, tokens, clock, last, prev>>

\* await Agent.findById(validatedData.agentId)
StepAgent(r) ==
  LET f == flight[r] IN
  /\ f.pc = "agent"
  /\ flight' = [flight EXCEPT ![r] =
                  IF f.body.agentId = BadId
                  THEN [f EXCEPT !.pc = "done", !.steps = Append(@, "agent"),
                                 !.resp = Err(400, "Invalid agent ID format")]
                  ELSE IF ~AgentExists(f.body.agentId)
                  THEN [f EXCEPT !.pc = "done", !.steps = Append(@, "agent"),
                                 !.resp = Err(404, "Agent not found")]
                  ELSE [f EXCEPT !.pc = AfterStep("agent", TRUE),
                                 !.steps = Append(@, "agent")]]
  /\ UNCHANGED <<dbVars, tokens, clock, last, prev>>

\* await Contact.findOne(contactQuery)
StepContact(r) ==
  LET f == flight[r]
      existing == FindContact(f.body)
  IN
  /\ f.pc = "contact"
  /\ flight' = [flight EXCEPT ![r] =
                  [f EXCEPT !.pc = AfterStep("contact", existing # {}),
                            !.steps = Append(@, "contact"),
                            !.contactMark = nextId.contact,
                            !.contactId =
                               IF existing = {} THEN 0
                               ELSE (CHOOSE c \in existing : TRUE).id]]
  /\ UNCHANGED <<dbVars, tokens, clock, last, prev>>

\* await contact.save()
StepNewContact(r) ==
  LET f == flight[r]
      contactData ==
        IF f.body.origin = "whatsapp"
        THEN [id |-> nextId.contact, name |-> f.body.phone, email |-> "",
              phone |-> f.body.phone]
        ELSE [id |-> nextId.contact, name |-> LocalPart(f.body.email),
              email |-> f.body.email, phone |-> ""]
  IN
  /\ f.pc = "newContact"
  /\ IF ~ContactNameOk(contactData.name)
     THEN Caught(r, InternalError)
     ELSE /\ contacts' = contacts \cup {contactData}
          /\ nextId' = [nextId EXCEPT !.contact = @ + 1]
          /\ flight' = [flight EXCEPT ![r] =
                          [f EXCEPT !.pc = AfterStep("newContact", TRUE),
                                    !.steps = Append(@, "newContact"),
                                    !.contactId = contactData.id,
                                    !.wrote = @ \cup {<<"contact",
                                                        contactData.id>>}]]
          /\ UNCHANGED <<users, tokens, clock, ownVars, threads, messages,
                         last, prev>>

\* await Thread.findOne(threadQuery).sort({createdAt: -1})
StepThread(r) ==
  LET f == flight[r]
      recent == FindThread(f.contactId, f.body.agentId, f.body.origin, clock)
  IN
  /\ f.pc = "thread"
  /\ flight' = [flight EXCEPT ![r] =
                  [f EXCEPT !.pc = AfterStep("thread", recent # {}),
                            !.steps = Append(@, "thread"),
                            !.threadMark = nextId.thread,
                            !.threadId =
                               IF recent = {} THEN 0
                               ELSE (CHOOSE t \in recent : TRUE).id]]
  /\ UNCHANGED <<dbVars, tokens, clock, last, prev>>

\* await thread.save()
StepNewThread(r) ==
  LET f == flight[r]
      threadData == [id |-> nextId.thread, contactId |-> f.contactId,
                     agentId |-> f.body.agentId, name |-> f.body.content,
                     origin |-> f.body.origin, createdAt |-> clock]
  IN
  /\ f.pc = "newThread"
  /\ IF ~ThreadNameOk(threadData.name)
     THEN Caught(r, InternalError)
     ELSE /\ threads' = threads \cup {threadData}
          /\ nextId' = [nextId EXCEPT !.thread = @ + 1]
          /\ flight' = [flight EXCEPT ![r] =
                          [f EXCEPT !.pc = AfterStep("newThread", TRUE),
                                    !.steps = Append(@, "newThread"),
                                    !.threadId = threadData.id,
                                    !.isNew = TRUE,
                                    !.wrote = @ \cup {<<"thread",
                                                        threadData.id>>}]]
          /\ UNCHANGED <<users, tokens, clock, ownVars, contacts, messages,
                         last, prev>>

\* await userMessage.save() and await assistantMessage.save()
StepMessage(r) ==
  LET f == flight[r]
      message == [id |-> nextId.message, threadId |-> f.threadId,
                  role |-> f.pc,
                  content |-> IF f.pc = "user" THEN f.body.content
                              ELSE CannedReply]
  IN
  /\ f.pc \in {"user", "assistant"}
  /\ messages' = messages \cup {message}
  /\ nextId' = [nextId EXCEPT !.message = @ + 1]
  /\ flight' = [flight EXCEPT ![r] =
                  [f EXCEPT !.pc = AfterStep(f.pc, TRUE),
                            !.steps = Append(@, f.pc),
                            !.wrote = @ \cup {<<"message", message.id>>}]]
  /\ UNCHANGED <<users, tokens, clock, ownVars, contacts, threads, last, prev>>

\* res.status(201).json(...)
StepRespond(r) ==
  LET f == flight[r] IN
  /\ f.pc = "respond"
  /\ flight' = [flight EXCEPT ![r] =
                  [f EXCEPT !.pc = AfterStep("respond", TRUE),
                            !.steps = Append(@, "respond"),
                            !.resp =
                               Response(201, "Message sent to agent successfully",
                                        <<[threadId |-> f.threadId,
                                           isNew |-> f.isNew,
                                           contactId |-> f.contactId]>>, 0)]]
  /\ UNCHANGED <<dbVars, tokens, clock, last, prev>>

\* The store rejects a write (connection lost, write error): save() throws.
StoreFails(r) ==
  /\ flight[r].pc \in {"newContact", "newThread", "user", "assistant"}
  /\ Caught(r, InternalError)

(***************************************************************************)
(* createUser, one awaited step at a time.                                 *)
(***************************************************************************)
NoUniqueIndex(email) == FALSE

\* UserSchema.email is unique: the store rejects the insert of a user whose
\* email a stored user has (duplicate key).
DuplicateKey(email) == \E u \in users : u.email = email

\* The request arrives: createUserSchema.parse, which lowercases the email.
CreateUserStart(r, body) ==
  /\ flight[r].pc = "idle"
  /\ flight' = [flight EXCEPT ![r] =
                  IF ~body.valid
                  THEN [NoFlight EXCEPT !.pc = "done", !.body = body,
                                        !.steps = <<"parse">>,
                                        !.resp = ValidationError]
                  ELSE [NoFlight EXCEPT !.pc = "findOne", !.body = body]]
  /\ UNCHANGED <<dbVars, tokens, clock, last, prev>>

\* await User.findOne({email})
CreateUserFind(r) ==
  LET f == flight[r] IN
  /\ f.pc = "findOne"
  /\ flight' = [flight EXCEPT ![r] =
                  IF UserByEmail(ToLower(f.body.email)) # {}
                  THEN [f EXCEPT !.pc = "done", !.steps = Append(@, "findOne"),
                                 !.resp =
                                    Err(409,
                                        "User with this email already exists")]
                  ELSE [f EXCEPT !.pc = "save",
                                 !.steps = Append(@, "findOne")]]
  /\ UNCHANGED <<dbVars, tokens, clock, last, prev>>

\* await user.save(), then generateToken and the 201; a rejected insert goes
\* to the catch block, which answers 500.
CreateUserSave(r) ==
  LET f == flight[r]
      savedUser == [id |-> nextId.user, name |-> f.body.name,
                    email |-> ToLower(f.body.email),
                    password |-> Hash(f.body.password)]
      token == generateToken([userId |-> savedUser.id,
                              email |-> savedUser.email], clock)
  IN
  /\ f.pc = "save"
  /\ UNCHANGED <<clock, ownVars, msgVars, last, prev>>
  /\ IF DuplicateKey(savedUser.email)
     THEN /\ flight' = [flight EXCEPT ![r] =
                          [f EXCEPT !.pc = "done", !.steps = Append(@, "save"),
                                    !.resp = InternalError]]
          /\ UNCHANGED <<users, tokens, nextId>>
     ELSE /\ users' = users \cup {savedUser}
          /\ nextId' = [nextId EXCEPT !.user = @ + 1]
          /\ tokens' = tokens \cup {token}
          /\ flight' = [flight EXCEPT ![r] =
                          [f EXCEPT !.pc = "done", !.steps = Append(@, "save"),
                                    !.wrote = {<<"user", savedUser.id>>},
                                    !.resp =
                                       Response(201, "User created successfully",
                                                <<[id |-> savedUser.id,
                                                   name |-> savedUser.name,
                                                   email |-> savedUser.email,
                                                   token |-> token]>>, 0)]]

(***************************************************************************)
(* Inputs.                                                                 *)
(***************************************************************************)
IssuedHeaders == {Bearer(t) : t \in tokens}
Headers == {NoHeader, Header(<<"Bearer">>)} \cup IssuedHeaders
AllHeaders ==
  {NoHeader, Header(<<"Bearer">>), Bearer(NoToken), Bearer(Malformed)}
    \cup IssuedHeaders \cup {Bearer(Forge(t)) : t \in tokens}

CompanyIdInputs == (1..MaxCompanies) \cup {BadId}
AgentIdInputs == (1..MaxAgents) \cup {BadId}

UserBodies ==
  [email : RawEmails, name : UserNames, password : Passwords, valid : BOOLEAN]
LoginBodies ==
  [email : RawEmails, password : Passwords \cup {"wrong"}, valid : BOOLEAN]
CompanyBodies == [name : CompanyNames, valid : BOOLEAN]
CompanyUpdates == [name : CompanyNames \cup {""}, valid : BOOLEAN]
\* Bodies that also carry a userId key, which the schemas do not declare.
OwnerBodies == [name : CompanyNames, userId : 0..MaxUsers, valid : BOOLEAN]
OwnerUpdates ==
  [name : CompanyNames \cup {""}, userId : 0..MaxUsers, valid : BOOLEAN]
CompanyQueries ==
  [search : {"", "acme"}, page : 1..2, limit : 1..2, valid : BOOLEAN]
AgentBodies ==
  [name : AgentNames, companyId : CompanyIdInputs, valid : BOOLEAN]
AgentUpdates ==
  [name : AgentNames \cup {""}, companyId : CompanyIdInputs \cup {0},
   valid : BOOLEAN]
AgentQueries ==
  [companyId : CompanyIdInputs \cup {0}, search : {"", "sales"},
   page : {1}, limit : 1..2, valid : BOOLEAN]
ThreadBodies ==
  [contactId : (1..MaxContacts) \cup {BadId}, agentId : AgentIdInputs,
   name : {"hello"}, origin : Origins, valid : BOOLEAN]
MessageBodies ==
  [content : Contents, email : ContactEmails \cup {""},
   phone : Phones \cup {""}, origin : Origins, agentId : AgentIdInputs,
   valid : BOOLEAN]

\* Keys whose default contact name is shorter than ContactSchema allows.
ShortPhones == {"5"}
ShortEmails == {"a@x.com"}
ContactBodies ==
  [content : Contents, email : ContactEmails \cup ShortEmails \cup {""},
   phone : Phones \cup ShortPhones \cup {""}, origin : Origins,
   agentId : AgentIdInputs, valid : BOOLEAN]
WindowBodies ==
  [content : Contents, email : ContactEmails, phone : Phones,
   origin : Origins, agentId : 1..MaxAgents, valid : {TRUE}]
KeyOrigins == Origins \cup {"instagram"}
KeyBodies ==
  [content : {"hi"}, email : ContactEmails \cup {""}, phone : Phones \cup {""},
   origin : KeyOrigins, agentId : {1}, valid : {TRUE}]
FlightBodies ==
  [content : Contents, email : ContactEmails, phone : Phones,
   origin : {"whatsapp"}, agentId : 1..MaxAgents, valid : BOOLEAN]
DupBodies ==
  [content : {"hi"}, email : ContactEmails, phone : Phones,
   origin : {"whatsapp"}, agentId : {1}, valid : {TRUE}]
CreateMessageBodies ==
  [threadId : (1..MaxThreads) \cup {BadId}, role : {"user", "assistant"},
   content : {"hi"}, valid : BOOLEAN]
AnnHeaders == {h \in IssuedHeaders : HeaderToken(h).userId = 1}

(***************************************************************************)
(* Specifications.                                                         *)
(***************************************************************************)
EmptyStore ==
  /\ companies = {}
  /\ agents = {}
  /\ contacts = {}
  /\ threads = {}
  /\ messages = {}
  /\ clock = 0
  /\ last = Idle
  /\ prev = NoSend
  /\ flight = [r \in Requests |-> NoFlight]

\* The state after construction: nothing stored, no token issued.
Init ==
  /\ EmptyStore
  /\ users = {}
  /\ tokens = {}
  /\ nextId = [user |-> 1, company |-> 1, agent |-> 1, contact |-> 1,
               thread |-> 1, message |-> 1]

Ann == [id |-> 1, name |-> "Ann", email |-> "ann@x.com",
        password |-> Hash("secret1")]
Bob == [id |-> 2, name |-> "Bob", email |-> "bob@x.com",
        password |-> Hash("secret1")]

\* The state after Ann and Bob registered (SpecAuth reaches it from Init).
Registered ==
  /\ users = {Ann, Bob}
  /\ tokens = {generateToken([userId |-> u.id, email |-> u.email], 0) :
                 u \in {Ann, Bob}}
  /\ nextId = [user |-> 3, company |-> 1, agent |-> 1, contact |-> 1,
               thread |-> 1, message |-> 1]

InitRegistered == EmptyStore /\ Registered

\* The access guard under registration, login, the passage of time and the
\* removal of users.
NextAuth ==
  \/ Respond
  \/ /\ last = Idle
     /\ \/ \E body \in UserBodies : createUser(body)
        \/ \E body \in LoginBodies : login(body)
        \/ \E hdr \in AllHeaders : RouteMe(hdr)
        \/ \E hdr \in AllHeaders : RouteOptional(hdr)
        \/ \E id \in 1..MaxUsers : UserRemoved(id)
        \/ Tick(Day)

SpecAuth == Init /\ [][NextAuth]_vars

\* Ownership of companies.
Next ==
  \/ Respond
  \/ /\ last = Idle
     /\ \/ \E hdr \in Headers, body \in CompanyBodies : RouteCreateCompany(hdr, body)
        \/ \E hdr \in Headers, query \in CompanyQueries : RouteGetCompanies(hdr, query)
        \/ \E hdr \in Headers, id \in CompanyIdInputs : RouteGetCompanyById(hdr, id)
        \/ \E hdr \in Headers, id \in CompanyIdInputs, body \in CompanyUpdates :
             RouteUpdateCompany(hdr, id, body)
        \/ \E hdr \in Headers, id \in CompanyIdInputs : RouteDeleteCompany(hdr, id)

Spec == InitRegistered /\ [][Next]_vars

\* The owner of a company, under bodies that name an owner.
NextOwner ==
  \/ Respond
  \/ /\ last = Idle
     /\ \/ \E hdr \in Headers, body \in OwnerBodies : RouteCreateCompany(hdr, body)
        \/ \E hdr \in Headers, id \in CompanyIdInputs, body \in OwnerUpdates :
             RouteUpdateCompany(hdr, id, body)
        \/ \E hdr \in Headers, id \in CompanyIdInputs : RouteDeleteCompany(hdr, id)

SpecOwner == InitRegistered /\ [][NextOwner]_vars

\* Agents between the companies of two users: companies are created, renamed
\* and deleted, agents are created and moved.
NextCross ==
  \/ Respond
  \/ /\ last = Idle
     /\ \/ \E hdr \in IssuedHeaders, name \in CompanyNames :
             RouteCreateCompany(hdr, [name |-> name, valid |-> TRUE])
        \/ \E hdr \in IssuedHeaders, id \in 1..MaxCompanies :
             RouteUpdateCompany(hdr, id, [name |-> "Bolt", valid |-> TRUE])
        \/ \E hdr \in IssuedHeaders, id \in 1..MaxCompanies :
             RouteDeleteCompany(hdr, id)
        \/ \E hdr \in IssuedHeaders, companyId \in 1..MaxCompanies :
             RouteCreateAgent(hdr, [name |-> "Sales", companyId |-> companyId,
                                    valid |-> TRUE])
        \/ \E hdr \in IssuedHeaders, id \in 1..MaxAgents,
              companyId \in 1..MaxCompanies :
             RouteUpdateAgent(hdr, id, [name |-> "", companyId |-> companyId,
                                        valid |-> TRUE])

SpecCross == InitRegistered /\ [][NextCross]_vars

\* Ownership of agents, through the companies of their owners.
NextAgent ==
  \/ Respond
  \/ /\ last = Idle
     /\ \/ \E hdr \in IssuedHeaders :
             RouteCreateCompany(hdr, [name |-> "Acme", valid |-> TRUE])
        \/ \E hdr \in IssuedHeaders, id \in 1..MaxCompanies :
             RouteDeleteCompany(hdr, id)
        \/ \E hdr \in Headers, body \in AgentBodies : RouteCreateAgent(hdr, body)
        \/ \E hdr \in Headers, query \in AgentQueries : RouteGetAgents(hdr, query)
        \/ \E hdr \in Headers, id \in AgentIdInputs : RouteGetAgentById(hdr, id)
        \/ \E hdr \in Headers, id \in AgentIdInputs, body \in AgentUpdates :
             RouteUpdateAgent(hdr, id, body)
        \/ \E hdr \in Headers, id \in AgentIdInputs : RouteDeleteAgent(hdr, id)

SpecAgent == InitRegistered /\ [][NextAgent]_vars

\* Reaching an agent through threads and messages.
NextMsg ==
  \/ Respond
  \/ /\ last = Idle
     /\ \/ \E hdr \in IssuedHeaders :
             RouteCreateCompany(hdr, [name |-> "Acme", valid |-> TRUE])
        \/ \E hdr \in IssuedHeaders, id \in 1..MaxCompanies :
             RouteCreateAgent(hdr, [name |-> "Sales", companyId |-> id,
                                    valid |-> TRUE])
        \/ \E hdr \in Headers, body \in ThreadBodies : RouteCreateThread(hdr, body)
        \/ \E hdr \in Headers, body \in MessageBodies :
             RouteSendMessageToAgent(hdr, body)

SpecMsg == InitRegistered /\ [][NextMsg]_vars

\* The state after Ann created the company Acme and its agent Sales (SpecMsg
\* reaches it from InitRegistered).
InitAgent ==
  /\ users = {Ann, Bob}
  /\ tokens = {generateToken([userId |-> u.id, email |-> u.email], 0) :
                 u \in {Ann, Bob}}
  /\ companies = {[id |-> 1, name |-> "Acme", userId |-> 1]}
  /\ agents = {[id |-> 1, name |-> "Sales", companyId |-> 1]}
  /\ contacts = {}
  /\ threads = {}
  /\ messages = {}
  /\ nextId = [user |-> 3, company |-> 2, agent |-> 2, contact |-> 1,
               thread |-> 1, message |-> 1]
  /\ clock = 0
  /\ last = Idle
  /\ prev = NoSend
  /\ flight = [r \in Requests |-> NoFlight]

\* send-to-agent over every shape of body: validation, the agent lookup and
\* the creation of the contact.
NextContact ==
  \/ Respond
  \/ /\ last = Idle
     /\ \E hdr \in {NoHeader} \cup AnnHeaders, body \in ContactBodies :
          RouteSendMessageToAgent(hdr, body)

SpecContact == InitAgent /\ [][NextContact]_vars

\* send-to-agent calls of one client as time passes: the 24-hour window.
NextWindow ==
  \/ RespondSend
  \/ /\ last = Idle
     /\ \/ \E hdr \in AnnHeaders, body \in WindowBodies :
             RouteSendMessageToAgent(hdr, body)
        \/ Tick(1)

SpecWindow == InitAgent /\ [][NextWindow]_vars

\* send-to-agent under every origin, with and without the field that the
\* origin does not use as its key.
NextKey ==
  \/ Respond
  \/ /\ last = Idle
     /\ \E hdr \in {NoHeader} \cup AnnHeaders, body \in KeyBodies :
          RouteSendMessageToAgent(hdr, body)

SpecKey == InitAgent /\ [][NextKey]_vars

\* send-to-agent among threads that createThread opened for the same
\* contact, agent and origin, as time passes.
NextPick ==
  \/ Respond
  \/ /\ last = Idle
     /\ \/ \E hdr \in AnnHeaders, origin \in Origins :
             RouteSendMessageToAgent(hdr,
               [content |-> "hi", email |-> "cli@x.com",
                phone |-> "+15551234567", origin |-> origin, agentId |-> 1,
                valid |-> TRUE])
        \/ \E hdr \in AnnHeaders, origin \in Origins :
             RouteCreateThread(hdr,
               [contactId |-> 1, agentId |-> 1, name |-> "hello",
                origin |-> origin, valid |-> TRUE])
        \/ Tick(1)

SpecPick == InitAgent /\ [][NextPick]_vars

\* Concurrent send-to-agent requests, step by step.
NextFlight ==
  \E r \in Requests :
    \/ \E hdr \in AnnHeaders, body \in FlightBodies : SendStart(r, hdr, body)
    \/ StepAgent(r)
    \/ StepContact(r)
    \/ StepNewContact(r)
    \/ StepThread(r)
    \/ StepNewThread(r)
    \/ StepMessage(r)
    \/ StepRespond(r)
    \/ StoreFails(r)

SpecFlight == InitAgent /\ [][NextFlight]_vars

\* Time passes between requests: a request lasts milliseconds, a unit of the
\* clock is eight hours.
Later ==
  /\ clock < MaxElapsed
  /\ \A r \in Requests : flight[r].pc \in {"idle", "done"}
  /\ Tick(1)

\* Concurrent send-to-agent requests of one phone to one agent, as time passes.
NextDup ==
  \/ Later
  \/ \E r \in Requests :
       \/ \E hdr \in AnnHeaders, body \in DupBodies : SendStart(r, hdr, body)
       \/ StepAgent(r)
       \/ StepContact(r)
       \/ StepNewContact(r)
       \/ StepThread(r)
       \/ StepNewThread(r)
       \/ StepMessage(r)
       \/ StepRespond(r)

SpecDup == InitAgent /\ [][NextDup]_vars

\* Concurrent createUser requests, step by step.
NextRace ==
  \E r \in Requests :
    \/ \E body \in UserBodies : CreateUserStart(r, body)
    \/ CreateUserFind(r)
    \/ CreateUserSave(r)

SpecRace == Init /\ [][NextRace]_vars

\* The references between documents while threads and messages are created
\* and agents and companies are deleted.
NextRef ==
  \/ Respond
  \/ /\ last = Idle
     /\ \/ \E hdr \in AnnHeaders, agentId \in 1..MaxAgents :
             RouteSendMessageToAgent(hdr,
               [content |-> "hi", email |-> "", phone |-> "+15551234567",
                origin |-> "whatsapp", agentId |-> agentId, valid |-> TRUE])
        \/ \E hdr \in AnnHeaders, body \in ThreadBodies :
             RouteCreateThread(hdr, body)
        \/ \E hdr \in AnnHeaders, body \in CreateMessageBodies :
             RouteCreateMessage(hdr, body)
        \/ \E hdr \in AnnHeaders, id \in 1..MaxAgents : RouteDeleteAgent(hdr, id)
        \/ \E hdr \in AnnHeaders, id \in 1..MaxCompanies :
             RouteDeleteCompany(hdr, id)

SpecRef == InitAgent /\ [][NextRef]_vars

(***************************************************************************)
(* Properties.  A request step takes last from Idle to the served request; *)
(* in a step formula the unprimed store is the store the request found.    *)
(***************************************************************************)
CompanyOps == {"getCompanyById", "updateCompany", "deleteCompany"}
AgentOps == {"getAgentById", "updateAgent", "deleteAgent"}

C2_Claim ==
  (last.op \in {"sendMessageToAgent", "createThread"} /\ last.resp.status = 201)
  => \E a \in agents :
       /\ a.id = last.req.agentId
       /\ \E c \in companies : c.id = a.companyId /\ c.userId = last.user.id

\* C3 (as claimed): getAgents returns only agents of companies owned by the
\* authenticated caller, whatever the companyId query parameter.
C3_Claim ==
  (last.op = "getAgents" /\ last.resp.status = 200)
  => \A i \in 1..Len(last.resp.data) :
       \E c \in companies :
         c.id = last.resp.data[i].companyId /\ c.userId = last.user.id

C5_Original ==
  [][(/\ last = Idle
      /\ last'.op = "createAgent"
      /\ last'.next
      /\ last'.req.companyId # BadId
      /\ ~\E c \in companies :
            c.id = last'.req.companyId /\ c.userId = last'.user.id)
     => /\ agents' = agents
        /\ last'.resp.status \in {403, 404}
        /\ last'.resp.message = "Company not found or access denied"]_vars

\* C5 (amended): such a createAgent request creates no agent; it is answered
\* 403 'Company not found or access denied' when its body passes validation
\* and 400 'Validation error' when it does not.
C5_Amended ==
  [][(/\ last = Idle
      /\ last'.op = "createAgent"
      /\ last'.next
      /\ last'.req.companyId # BadId
      /\ ~\E c \in companies :
            c.id = last'.req.companyId /\ c.userId = last'.user.id)
     => /\ agents' = agents
        /\ nextId' = nextId
        /\ last'.resp = IF last'.req.valid THEN CompanyDenied
                        ELSE ValidationError]_vars

\* C5 witness: a valid createAgent for another user's company was answered
\* 403 and that company has no agent of the requested name.
C5_Witness ==
  /\ last.op = "createAgent"
  /\ last.next
  /\ last.req.valid
  /\ last.resp = CompanyDenied
  /\ \E c \in companies : c.id = last.req.companyId /\ c.userId # last.user.id
  /\ ~\E a \in agents :
        a.companyId = last.req.companyId /\ a.name = last.req.name

\* C6: an updateAgent that carries a companyId is applied only if the caller
\* owns that company; otherwise it is rejected and the agents are unchanged,
\* and a successful one leaves the agent in a company the caller owns.
C6_Theorem ==
  [][(/\ last = Idle
      /\ last'.op = "updateAgent"
      /\ last'.next
      /\ last'.req.companyId # 0)
     => LET owned == \E c \in companies :
                       /\ c.id = last'.req.companyId
                       /\ c.userId = last'.user.id
        IN /\ ~owned => (last'.resp.status # 200 /\ agents' = agents)
           /\ last'.resp.status = 200
                => /\ owned
                   /\ \E a \in agents' :
                        /\ a.id = last'.req.id
                        /\ a.companyId = last'.req.companyId]_vars

\* C6 witness: the caller tried to move an agent of their own into another
\* user's company, was refused, and the agent is where it was.
C6_Witness ==
  /\ last.op = "updateAgent"
  /\ last.next
  /\ last.req.valid
  /\ last.resp = CompanyDenied
  /\ \E c \in companies : c.id = last.req.companyId /\ c.userId # last.user.id
  /\ \E a \in agents :
       /\ a.id = last.req.id
       /\ a.companyId # last.req.companyId
       /\ \E c \in companies : c.id = a.companyId /\ c.userId = last.user.id

\* C7: getCompanies lists only companies owned by the caller, and its total
\* counts only those.
C7_Theorem ==
  (last.op = "getCompanies" /\ last.resp.status = 200)
  => /\ \A i \in 1..Len(last.resp.data) :
          /\ last.resp.data[i].userId = last.user.id
          /\ \E c \in companies : CompanyView(c) = last.resp.data[i]
     /\ last.resp.total =
          Cardinality({c \in companies :
                         /\ c.userId = last.user.id
                         /\ last.req.search = ""
                              \/ ToLower(c.name) = ToLower(last.req.search)})

\* C7 witness: a listing with an entry was returned while another user owns
\* a company that the same query would match.
C7_Witness ==
  /\ last.op = "getCompanies"
  /\ last.resp.status = 200
  /\ Len(last.resp.data) >= 1
  /\ \E c \in companies :
       /\ c.userId # last.user.id
       /\ last.req.search = "" \/ ToLower(c.name) = ToLower(last.req.search)

\* C8 (as claimed): a bearer token older than the 7-day lifetime is rejected
\* with 401, next() is not called and no identity is attached.
C8_Claim ==
  LET token == HeaderToken(last.hdr) IN
  (/\ last.op = "getCurrentUser"
   /\ token.kind = "jwt"
   /\ clock - token.iat > TokenLifetime)
  => /\ last.resp.status = 401
     /\ ~last.next
     /\ last.user = NoUser

\* C9: a request without a bearer token (no Authorization header, or a header
\* without a second part) is answered 401 'Access token is required'; next()
\* is not called, req.user is not set, and nothing stored changes.
C9_Theorem ==
  [][(/\ last = Idle
      /\ last' # Idle
      /\ ~last'.hdr.present \/ Len(last'.hdr.parts) < 2
      /\ last'.op \notin {"createUser", "login"})
     => /\ last'.resp = Err(401, "Access token is required")
        /\ ~last'.next
        /\ last'.user = NoUser
        /\ dbVars' = dbVars
        /\ tokens' = tokens]_vars

\* C9 witness: a createCompany request whose header has no second part was
\* answered 401 in a store that already holds a company.
C9_Witness ==
  /\ last.op = "createCompany"
  /\ last.hdr = Header(<<"Bearer">>)
  /\ last.req.valid
  /\ last.resp.status = 401
  /\ companies # {}

\* C10: the guard calls next() only for a token that verifies and whose
\* embedded id is the id of a stored user, and req.user is then that user's
\* {id, email, name}; a token that verifies but names no stored user is
\* rejected with 'User not found' and next() is not called.
C10_Theorem ==
  LET token == HeaderToken(last.hdr) IN
  last.op = "getCurrentUser"
  => /\ last.next
          => /\ token.kind = "jwt" /\ token.sig = "ok" /\ clock < token.exp
             /\ \E u \in users :
                  /\ u.id = token.userId
                  /\ last.user = [id |-> u.id, email |-> u.email,
                                  name |-> u.name]
     /\ (/\ token.kind = "jwt" /\ token.sig = "ok" /\ clock < token.exp
         /\ ~\E u \in users : u.id = token.userId)
        => /\ ~last.next
           /\ last.user = NoUser
           /\ last.resp = Err(401, "User not found")

\* C10 witness: a token that still verifies was presented after its user was
\* removed, and was rejected.
C10_Witness ==
  LET token == HeaderToken(last.hdr) IN
  /\ last.op = "getCurrentUser"
  /\ token.kind = "jwt" /\ token.sig = "ok" /\ clock < token.exp
  /\ ~\E u \in users : u.id = token.userId
  /\ ~last.next
  /\ users # {}

\* C11: optionalAuth never rejects: for every header it calls next() exactly
\* once and sends no response, and req.user is set exactly when the token
\* verifies and names a stored user, to that user's {id, email, name}.
C11_Theorem ==
  LET token == HeaderToken(last.hdr)
      verifies == token.kind = "jwt" /\ token.sig = "ok" /\ clock < token.exp
  IN
  last.op = "optionalAuth"
  => /\ last.next
     /\ last.req.calls = 1
     /\ last.resp = Err(0, "")
     /\ IF verifies /\ \E u \in users : u.id = token.userId
        THEN \E u \in users :
               /\ u.id = token.userId
               /\ last.user = [id |-> u.id, email |-> u.email, name |-> u.name]
        ELSE last.user = NoUser

\* C11 witness: an expired token of a stored user went through optionalAuth,
\* which called next() without attaching an identity.
C11_Witness ==
  LET token == HeaderToken(last.hdr) IN
  /\ last.op = "optionalAuth"
  /\ token.kind = "jwt" /\ token.sig = "ok" /\ clock >= token.exp
  /\ \E u \in users : u.id = token.userId
  /\ last.next
  /\ last.user = NoUser

\* C12: a valid registration whose lower-cased email is already the email of
\* a stored user is answered 409 and leaves the users unchanged; no two
\* stored users ever share an email.
C12_Theorem ==
  [][/\ (/\ last = Idle
         /\ last'.op = "createUser"
         /\ last'.req.valid
         /\ \E u \in users : u.email = ToLower(last'.req.email))
        => /\ last'.resp = Err(409, "User with this email already exists")
           /\ users' = users
           /\ nextId' = nextId
           /\ tokens' = tokens
     /\ \A u, v \in users' : u.email = v.email => u = v]_vars

\* C12 witness: a valid registration under an email that differs from a
\* stored one only by case was answered 409.
C12_Witness ==
  /\ last.op = "createUser"
  /\ last.req.valid
  /\ last.resp.status = 409
  /\ last.req.email # ToLower(last.req.email)
  /\ \E u \in users : u.email = ToLower(last.req.email)
  /\ Cardinality(users) = 1

\* C13: a token that register or login returned for user U, presented to
\* GET /auth/me less than 7 days after it was issued while U is stored, is
\* accepted and answered 200 with U's id, name and email; the token that a
\* successful register or login returns names the user it returns.
C13_Theorem ==
  LET token == HeaderToken(last.hdr) IN
  /\ (/\ last.op = "getCurrentUser"
      /\ token \in tokens
      /\ clock - token.iat < TokenLifetime
      /\ \E u \in users : u.id = token.userId)
     => /\ last.next
        /\ last.resp.status = 200
        /\ \E u \in users :
             /\ u.id = token.userId
             /\ last.resp.data = <<[id |-> u.id, name |-> u.name,
                                    email |-> u.email]>>
  /\ (last.op \in {"createUser", "login"} /\ last.resp.status \in {200, 201})
     => /\ last.resp.data[1].token \in tokens
        /\ last.resp.data[1].token.userId = last.resp.data[1].id
        /\ last.resp.data[1].token.iat = clock
        /\ \E u \in users :
             /\ u.id = last.resp.data[1].id
             /\ u.email = ToLower(last.req.email)

\* C13 witness: after register and a later login, GET /auth/me with the
\* login's token, six days old, was answered 200.
C13_Witness ==
  LET token == HeaderToken(last.hdr) IN
  /\ last.op = "getCurrentUser"
  /\ last.resp.status = 200
  /\ token \in tokens
  /\ clock - token.iat = TokenLifetime - Day
  /\ \E t \in tokens : t.userId = token.userId /\ t.iat < token.iat

\* C14: a valid login is answered the same 401 'Invalid email or password'
\* when no user has the email and when the password does not match; a token
\* is issued only when both match; a login never changes what is stored.
C14_Theorem ==
  [][(last = Idle /\ last'.op = "login")
     => /\ dbVars' = dbVars
        /\ last'.req.valid
             => LET found == {u \in users : u.email = ToLower(last'.req.email)}
                    match == \E u \in found :
                               u.password = <<"bcrypt", last'.req.password>>
                IN IF match
                   THEN /\ last'.resp.status = 200
                        /\ \E u \in found :
                             /\ last'.resp.data[1].id = u.id
                             /\ last'.resp.data[1].token.userId = u.id
                        /\ tokens' = tokens \cup {last'.resp.data[1].token}
                   ELSE /\ last'.resp = Err(401, "Invalid email or password")
                        /\ tokens' = tokens
        /\ ~last'.req.valid => (tokens' = tokens /\ last'.resp.status = 400)]_vars

\* C14 witness: a login with a stored email and a wrong password was answered
\* 401 while a user is stored under that email.
C14_Witness ==
  /\ last.op = "login"
  /\ last.req.valid
  /\ last.req.password = "wrong"
  /\ last.resp = Err(401, "Invalid email or password")
  /\ \E u \in users : u.email = ToLower(last.req.email)

\* C15 (as claimed): two successive successful send-to-agent calls less than
\* 24 hours apart with the same phone, the same agentId and origin whatsapp
\* use one contact and one thread: the second returns the first's thread id
\* with isNew false and the first's contact id, exactly one contact then has
\* that phone and the thread holds four messages.
C15_Original ==
  [][(/\ last = Idle
      /\ last'.op = "sendMessageToAgent"
      /\ last'.resp.status = 201
      /\ prev.resp.status = 201
      /\ last'.req.origin = "whatsapp"
      /\ prev.req.origin = "whatsapp"
      /\ last'.req.phone = prev.req.phone
      /\ last'.req.agentId = prev.req.agentId
      /\ clock - prev.at < ThreadWindow)
     => LET first == prev.resp.data[1]
            second == last'.resp.data[1]
        IN /\ second.threadId = first.threadId
           /\ ~second.isNew
           /\ second.contactId = first.contactId
           /\ Cardinality({c \in contacts' : c.phone = last'.req.phone}) = 1
           /\ Cardinality({m \in messages' : m.threadId = first.threadId}) = 4]_vars

\* C15 (amended): the same, for two calls the first of which created its
\* thread (isNew true): the second call reuses that thread and the contact,
\* creates neither, and the thread then holds four messages.
C15_Amended ==
  [][(/\ last = Idle
      /\ last'.op = "sendMessageToAgent"
      /\ last'.resp.status = 201
      /\ prev.resp.status = 201
      /\ prev.resp.data[1].isNew
      /\ last'.req.origin = "whatsapp"
      /\ prev.req.origin = "whatsapp"
      /\ last'.req.phone = prev.req.phone
      /\ last'.req.agentId = prev.req.agentId
      /\ clock - prev.at < ThreadWindow)
     => LET first == prev.resp.data[1]
            second == last'.resp.data[1]
        IN /\ second.threadId = first.threadId
           /\ ~second.isNew
           /\ second.contactId = first.contactId
           /\ contacts' = contacts
           /\ threads' = threads
           /\ Cardinality({c \in contacts' : c.phone = last'.req.phone}) = 1
           /\ Cardinality({m \in messages' : m.threadId = first.threadId}) = 4]_vars

\* C15 witness: sixteen hours after a whatsapp call that created its thread,
\* a second call with the same phone and agent reused thread and contact.
C15_Witness ==
  /\ last.op = "sendMessageToAgent"
  /\ last.resp.status = 201
  /\ prev.resp.status = 201
  /\ prev.resp.data[1].isNew
  /\ last.req.origin = "whatsapp"
  /\ prev.req.origin = "whatsapp"
  /\ last.req.phone = prev.req.phone
  /\ last.req.agentId = prev.req.agentId
  /\ clock - prev.at = ThreadWindow - 1
  /\ ~last.resp.data[1].isNew
  /\ last.resp.data[1].threadId = prev.resp.data[1].threadId

\* C16 (as claimed): a send-to-agent call that passes validation and names a
\* stored agent, made when every thread of its contact, agent and origin was
\* created more than 24 hours earlier, creates a new thread for them (isNew
\* true), keeps the older threads as they are and reuses the contact.
C16_Claim ==
  [][\A c \in contacts :
       (/\ last = Idle
        /\ last'.op = "sendMessageToAgent"
        /\ last'.next
        /\ last'.req.valid
        /\ \E a \in agents : a.id = last'.req.agentId
        /\ IF last'.req.origin = "whatsapp"
           THEN last'.req.phone # "" /\ c.phone = last'.req.phone
           ELSE last'.req.email # "" /\ c.email = last'.req.email
        /\ LET same == {t \in threads : /\ t.contactId = c.id
                                        /\ t.agentId = last'.req.agentId
                                        /\ t.origin = last'.req.origin}
           IN /\ same # {}
              /\ \A t \in same : clock - t.createdAt > ThreadWindow)
       => /\ last'.resp.status = 201
          /\ last'.resp.data[1].isNew
          /\ last'.resp.data[1].contactId = c.id
          /\ contacts' = contacts
          /\ threads \subseteq threads'
          /\ \E t \in threads' \ threads :
               /\ t.id = last'.resp.data[1].threadId
               /\ t.contactId = c.id
               /\ t.agentId = last'.req.agentId
               /\ t.origin = last'.req.origin]_vars

\* C17 (as claimed): a send-to-agent request that passes validation and names
\* a stored agent, when no contact matches its key, creates a contact and
\* completes with 201: for whatsapp the contact has name = phone, the phone
\* and no email; for other origins it has name = the local part of the email
\* (or '-'), the email and no phone.
C17_Claim ==
  [][(/\ last = Idle
      /\ last'.op = "sendMessageToAgent"
      /\ last'.next
      /\ last'.req.valid
      /\ IF last'.req.origin = "whatsapp" THEN last'.req.phone # ""
         ELSE last'.req.email # ""
      /\ \E a \in agents : a.id = last'.req.agentId
      /\ ~\E c \in contacts :
            IF last'.req.origin = "whatsapp" THEN c.phone = last'.req.phone
            ELSE c.email = last'.req.email)
     => /\ last'.resp.status = 201
        /\ \E c \in contacts' \ contacts :
             /\ contacts' = contacts \cup {c}
             /\ c.id = last'.resp.data[1].contactId
             /\ IF last'.req.origin = "whatsapp"
                THEN /\ c.name = last'.req.phone
                     /\ c.phone = last'.req.phone
                     /\ c.email = ""
                ELSE /\ c.name \in {"cli", "a", "-"}
                     /\ c.email = last'.req.email
                     /\ c.phone = ""]_vars

\* C18: send-to-agent writes nothing before validation and the agent lookup
\* have both succeeded: a request that fails validation is answered 400, one
\* whose agentId names no stored agent is answered 404 'Agent not found' (400
\* for a malformed id), and neither creates a contact, a thread or a message.
C18_Theorem ==
  [][(/\ last = Idle
      /\ last'.op = "sendMessageToAgent"
      /\ last'.next)
     => LET req == last'.req
            passes == /\ req.valid
                      /\ IF req.origin = "whatsapp" THEN req.phone # ""
                         ELSE req.email # ""
            stored == \E a \in agents : a.id = req.agentId
        IN /\ ~passes => last'.resp = ValidationError
           /\ (passes /\ ~stored)
                => last'.resp = IF req.agentId = BadId
                                THEN Err(400, "Invalid agent ID format")
                                ELSE Err(404, "Agent not found")
           /\ (~passes \/ ~stored \/ last'.resp.status \in {400, 404})
                => /\ contacts' = contacts
                   /\ threads' = threads
                   /\ messages' = messages
                   /\ nextId' = nextId]_vars

\* C18 witness: a valid request for an agent id that names no agent, with a
\* key no stored contact has, was answered 404 and created no contact.
C18_Witness ==
  /\ last.op = "sendMessageToAgent"
  /\ last.next
  /\ last.req.valid
  /\ last.req.origin = "website"
  /\ last.req.email # ""
  /\ last.resp = Err(404, "Agent not found")
  /\ contacts # {}
  /\ ~\E c \in contacts : c.email = last.req.email
  /\ ~\E a \in agents : a.id = last.req.agentId

\* C19 (as claimed): in every reachable state every thread's contactId and
\* agentId name a stored contact and a stored agent, and every message's
\* threadId names a stored thread.
C19_Claim ==
  /\ \A t \in threads :
       /\ \E c \in contacts : c.id = t.contactId
       /\ \E a \in agents : a.id = t.agentId
  /\ \A m \in messages : \E t \in threads : t.id = m.threadId

\* C20 (as claimed): in every reachable state no two agents of the same
\* company have the same name.
C20_Claim ==
  \A a, b \in agents : (a.companyId = b.companyId /\ a.name = b.name) => a = b

\* C21 (as claimed): in every reachable state every agent's companyId names
\* a stored company, also after deleteCompany on a company that has agents.
C21_Claim ==
  \A a \in agents : \E c \in companies : c.id = a.companyId

C23_Theorem ==
  [][(/\ last = Idle
      /\ last'.op = "sendMessageToAgent"
      /\ last'.next
      /\ last'.resp.status = 201)
     => LET req == last'.req
            data == last'.resp.data[1]
            cands == {t \in threads : /\ t.contactId = data.contactId
                                      /\ t.agentId = req.agentId
                                      /\ t.origin = req.origin
                                      /\ t.createdAt >= clock - ThreadWindow}
        IN /\ data.isNew <=> cands = {}
           /\ cands # {}
                => /\ threads' = threads
                   /\ \E t \in cands :
                        /\ t.id = data.threadId
                        /\ \A d \in cands : d.createdAt <= t.createdAt
           /\ cands = {}
                => \E t \in threads' \ threads :
                     /\ threads' = threads \cup {t}
                     /\ t.id = data.threadId
                     /\ t.contactId = data.contactId
                     /\ t.agentId = req.agentId
                     /\ t.origin = req.origin
                     /\ t.createdAt = clock]_vars

\* C23 witness: with a thread created exactly 24 hours ago and a later one
\* for the same contact, agent and origin, the call reused the later one.
C23_Witness ==
  /\ last.op = "sendMessageToAgent"
  /\ last.resp.status = 201
  /\ ~last.resp.data[1].isNew
  /\ \E t, d \in threads :
       /\ t.id = last.resp.data[1].threadId
       /\ d.contactId = t.contactId
       /\ d.agentId = t.agentId
       /\ d.origin = t.origin
       /\ d.createdAt = clock - ThreadWindow
       /\ d.createdAt < t.createdAt

\* C24 (as claimed): a send-to-agent request that passes validation, names a
\* stored agent and whose stored contact has no thread in the 24-hour window
\* creates a thread named after the content, with the request's contact,
\* agent and origin, and then writes the two messages.
C24_Claim ==
  [][\A c \in contacts :
       (/\ last = Idle
        /\ last'.op = "sendMessageToAgent"
        /\ last'.next
        /\ last'.req.valid
        /\ \E a \in agents : a.id = last'.req.agentId
        /\ IF last'.req.origin = "whatsapp"
           THEN last'.req.phone # "" /\ c.phone = last'.req.phone
           ELSE last'.req.email # "" /\ c.email = last'.req.email
        /\ ~\E t \in threads : /\ t.contactId = c.id
                               /\ t.agentId = last'.req.agentId
                               /\ t.origin = last'.req.origin
                               /\ t.createdAt >= clock - ThreadWindow)
       => /\ \E t \in threads' \ threads :
               /\ t.name = last'.req.content
               /\ t.contactId = c.id
               /\ t.agentId = last'.req.agentId
               /\ t.origin = last'.req.origin
          /\ Cardinality(messages' \ messages) = 2
          /\ last'.resp.status = 201]_vars

\* C25: within one send-to-agent request the steps run in the order agent
\* lookup, contact resolution, thread resolution, user-message insert,
\* assistant-message insert, response.  A request answered 201 has inserted
\* exactly two messages, both of the resolved thread, the user message (the
\* request's content) before the assistant message (the canned reply), and
\* the 201 is only there once both are stored.
C25_Theorem ==
  \A r \in Requests :
    LET f == flight[r]
        order == <<"agent", "contact", "thread", "user", "assistant",
                   "respond">>
        creating(s) == s \in {"newContact", "newThread"}
        core == SelectSeq(f.steps, LAMBDA s : ~creating(s))
        mine == {m \in messages : <<"message", m.id>> \in f.wrote}
    IN
    /\ f.steps # <<"parse">>
         => /\ Len(core) <= Len(order)
            /\ \A i \in 1..Len(core) : core[i] = order[i]
    /\ f.resp.status = 201
         => /\ f.pc = "done"
            /\ core = order
            /\ Cardinality(mine) = 2
            /\ Cardinality({w \in f.wrote : w[1] = "message"}) = 2
            /\ \E t \in threads : t.id = f.threadId
            /\ \E u \in mine, a \in mine :
                 /\ u.role = "user"
                 /\ u.content = f.body.content
                 /\ a.role = "assistant"
                 /\ a.content = CannedReply
                 /\ u.threadId = f.threadId
                 /\ a.threadId = f.threadId
                 /\ u.id < a.id

\* C25 witness: two requests ran interleaved and both were answered 201; the
\* user message of the second was stored between the two messages of the
\* first.
C25_Witness ==
  \E r \in Requests, q \in Requests :
    /\ r # q
    /\ flight[r].resp.status = 201
    /\ flight[q].resp.status = 201
    /\ \E u \in messages, v \in messages, a \in messages :
         /\ <<"message", u.id>> \in flight[r].wrote
         /\ <<"message", a.id>> \in flight[r].wrote
         /\ <<"message", v.id>> \in flight[q].wrote
         /\ u.role = "user"
         /\ v.role = "user"
         /\ a.role = "assistant"
         /\ u.id < v.id
         /\ v.id < a.id

\* C26: send-to-agent has no compensating rollback.  A step that ends a
\* request with an error leaves every collection as it was, so whatever the
\* request inserted in its earlier steps (a contact before the failed thread
\* insert, a user message before the failed assistant-message insert) stays
\* stored, then and ever after.
C26_Theorem ==
  [][\A r \in Requests :
       /\ (flight[r].pc # "done" /\ flight'[r].pc = "done"
           /\ flight'[r].resp.status >= 400)
            => /\ contacts' = contacts
               /\ threads' = threads
               /\ messages' = messages
               /\ flight'[r].wrote = flight[r].wrote
       /\ \A w \in flight[r].wrote :
            /\ w \in flight'[r].wrote
            /\ w[1] = "contact" => \E c \in contacts' : c.id = w[2]
            /\ w[1] = "thread" => \E t \in threads' : t.id = w[2]
            /\ w[1] = "message" => \E m \in messages' : m.id = w[2]]_vars

\* C26 witness: one request was answered 500 by the failed thread insert
\* after it created its contact, another by the failed assistant-message
\* insert after its user message was written; contact and message are stored.
C26_Witness ==
  \E r \in Requests, q \in Requests :
    /\ flight[r].pc = "done"
    /\ flight[r].resp = InternalError
    /\ flight[r].steps[Len(flight[r].steps)] = "newThread"
    /\ \E c \in contacts : flight[r].wrote = {<<"contact", c.id>>}
    /\ flight[q].pc = "done"
    /\ flight[q].resp = InternalError
    /\ flight[q].steps[Len(flight[q].steps)] = "assistant"
    /\ \E m \in messages :
         /\ <<"message", m.id>> \in flight[q].wrote
         /\ m.role = "user"
    /\ ~\E m \in messages :
         /\ m.threadId = flight[q].threadId
         /\ m.role = "assistant"

\* C27: find-or-create in send-to-agent is not atomic.  Two requests with the
\* same phone can both miss the contact and both insert one, and two requests
\* for the same contact, agent and origin can both miss the thread and both
\* insert one (the witness).  Only so: whenever a request inserts a contact
\* whose phone another contact has, or a thread less than 24 hours younger
\* than another thread of its contact, agent and origin, that other document
\* was inserted after the request's own lookup; requests that run one after
\* another leave no such pair.
C27_Theorem ==
  [][\A r \in Requests :
       /\ \A c \in contacts' \ contacts, d \in contacts :
            (/\ flight[r].pc = "newContact"
             /\ flight'[r] # flight[r]
             /\ c.phone # ""
             /\ d.phone = c.phone)
            => d.id >= flight[r].contactMark
       /\ \A t \in threads' \ threads, d \in threads :
            (/\ flight[r].pc = "newThread"
             /\ flight'[r] # flight[r]
             /\ d.contactId = t.contactId
             /\ d.agentId = t.agentId
             /\ d.origin = t.origin
             /\ t.createdAt - d.createdAt < ThreadWindow)
            => d.id >= flight[r].threadMark]_vars

\* C27 witness: two requests with the same phone were both answered 201, each
\* after inserting a contact of that phone.
C27_Witness ==
  /\ \E c \in contacts, d \in contacts :
       /\ c.id # d.id
       /\ c.phone # ""
       /\ c.phone = d.phone
       /\ \E r \in Requests, q \in Requests :
            /\ r # q
            /\ <<"contact", c.id>> \in flight[r].wrote
            /\ <<"contact", d.id>> \in flight[q].wrote
            /\ flight[r].resp.status = 201
            /\ flight[q].resp.status = 201

\* C28: however concurrent createUser requests with one email interleave, no
\* two stored users have the same email and at most one of the requests is
\* answered 201; a request that is not answered 201, as the one whose insert
\* the unique index rejects after its existence check passed, has stored no
\* user and its response carries no token.
C28_Theorem ==
  /\ \A u \in users, v \in users : u.email = v.email => u.id = v.id
  /\ \A r \in Requests, q \in Requests :
       (/\ r # q
        /\ flight[r].resp.status = 201
        /\ flight[q].resp.status = 201)
       => ToLower(flight[r].body.email) # ToLower(flight[q].body.email)
  /\ \A r \in Requests :
       (flight[r].pc = "done" /\ flight[r].resp.status # 201)
       => /\ flight[r].resp.status >= 400
          /\ flight[r].resp.data = NoData
          /\ flight[r].wrote = {}
  /\ Cardinality(tokens) <= Cardinality(users)

\* C28 witness: two requests with the same email both passed the existence
\* check; one was answered 201, the other one's insert was rejected and it
\* was answered 500 without a token.
C28_Witness ==
  \E r \in Requests, q \in Requests :
    /\ flight[r].resp.status = 201
    /\ flight[q].pc = "done"
    /\ flight[q].steps = <<"findOne", "save">>
    /\ flight[q].resp = InternalError
    /\ ToLower(flight[q].body.email) = ToLower(flight[r].body.email)
    /\ Cardinality({u \in users :
                      u.email = ToLower(flight[q].body.email)}) = 1

\* C29: the owner of a company is fixed when it is created.  A company that
\* appears was created by createCompany and belongs to the authenticated
\* caller, whatever userId the body names; a company that stays keeps its
\* userId under every operation, updateCompany with any body included.
C29_Theorem ==
  [][/\ \A c \in companies, d \in companies' :
          d.id = c.id => d.userId = c.userId
     /\ \A d \in companies' :
          (~\E c \in companies : c.id = d.id)
          => /\ last'.op = "createCompany"
             /\ last'.user.id # 0
             /\ d.userId = last'.user.id]_vars

\* C29 witness: updateCompany, with a body that names another user as userId
\* and a new name, answered 200; the company has the new name and is still
\* the caller's.
C29_Witness ==
  /\ last.op = "updateCompany"
  /\ last.resp.status = 200
  /\ last.req.userId # 0
  /\ last.req.userId # last.user.id
  /\ \E c \in companies :
       /\ c.id = last.req.id
       /\ c.name = last.req.name
       /\ c.userId = last.user.id
  /\ \E c \in companies : c.id # last.req.id

\* C30: agents never cross between users.  An agent that appears was created
\* by createAgent in a company of the caller; an agent that stays and whose
\* company exists afterwards was, before the step, in a company of the same
\* owner.  So whatever createAgent, updateAgent, updateCompany and
\* deleteCompany calls the users make, an agent whose company exists is in a
\* company of the user who created it.
C30_Theorem ==
  [][/\ \A a \in agents, b \in agents', d \in companies' :
          (b.id = a.id /\ d.id = b.companyId)
          => \E c \in companies : c.id = a.companyId /\ c.userId = d.userId
     /\ \A b \in agents' :
          (~\E a \in agents : a.id = b.id)
          => /\ last'.op = "createAgent"
             /\ \E d \in companies' :
                  d.id = b.companyId /\ d.userId = last'.user.id]_vars

\* C30 witness: a user asked updateAgent to move an agent of theirs into a
\* stored company of the other user and was answered 403; the agent is where
\* it was, in a company of the caller.
C30_Witness ==
  /\ last.op = "updateAgent"
  /\ last.resp = CompanyDenied
  /\ \E a \in agents, c \in companies, d \in companies :
       /\ a.id = last.req.id
       /\ c.id = a.companyId
       /\ c.userId = last.user.id
       /\ d.id = last.req.companyId
       /\ d.userId # last.user.id

====
